---- MODULE Spec2Model ----
(***************************************************************************)
(* Model of the go-global Global Payments client: the chained SHA-1        *)
(* request signature, the eight Card Storage operations, the transmission  *)
(* pipeline and the validation of the response signature.                  *)
(*                                                                         *)
(* A Go string is a sequence of one-character strings, so that joining     *)
(* with "." and appending "." and the secret are real concatenations.      *)
(* A nil-able pointer is a sequence of length 0 (nil) or 1 (the pointee).  *)
(* SHA-1 followed by hex encoding is an injective symbolic digest: one     *)
(* token that names the exact input that was hashed.                       *)
(*                                                                         *)
(* Spec is one call of an operation on a client, SpecUnit the signature    *)
(* engine and the validator called directly, SpecConcurrent several        *)
(* callers on one client, SpecClock the same while Now is replaced,        *)
(* SpecNewClient the construction of a client from a list of options.      *)
(* trace lists the calls one transmission has made.                        *)
(***************************************************************************)
EXTENDS Integers, Sequences, FiniteSets, TLC

VARIABLES client, options, now, request, op, pc, wire, reply, ret, trace

vars == <<client, options, now, request, op, pc, wire, reply, ret, trace>>

(* ---------------------------- bounds ----------------------------------- *)

NumSecrets == 2      \* distinct secrets a client may be configured with
NumRefs    == 2      \* distinct payer references a caller may use
MaxClock   == 1      \* seconds the time source may advance
MaxElems   == 2      \* longest element list handed to buildSignature directly
NumCallers == 2      \* callers that use one client at the same time
MaxOptions == 2      \* longest list of options handed to NewClient

(* ---------------------------- strings ---------------------------------- *)

Nil == <<>>
EmptyString == <<>>

Digit(d) == CASE d = 0 -> "0" [] d = 1 -> "1" [] d = 2 -> "2" [] d = 3 -> "3"
              [] d = 4 -> "4" [] d = 5 -> "5" [] d = 6 -> "6" [] d = 7 -> "7"
              [] d = 8 -> "8" [] d = 9 -> "9"

\* strings.Join(elems, sep)
RECURSIVE Join(_, _)
Join(elems, sep) ==
    IF Len(elems) = 0 THEN EmptyString
    ELSE IF Len(elems) = 1 THEN elems[1]
    ELSE elems[1] \o sep \o Join(Tail(elems), sep)

(* ------------------------ signature engine ----------------------------- *)

\* SHA-1 followed by hex encoding, as a function of the bytes hashed
Sha1Hex(str) == << "sha1:" \o ToString(str) >>

\* the gateway's documented signature: the elements joined by ".", hashed,
\* then the digest, "." and the secret hashed again
RECURSIVE DotJoined(_)
DotJoined(elems) ==
    IF elems = << >> THEN EmptyString
    ELSE IF Len(elems) = 1 THEN elems[1]
    ELSE DotJoined(SubSeq(elems, 1, Len(elems) - 1)) \o <<".">> \o elems[Len(elems)]

ChainedSignature(elems, secret) ==
    Sha1Hex(Sha1Hex(DotJoined(elems)) \o <<".">> \o secret)

\* io.WriteString(m, str), then hex.EncodeToString(m.Sum(nil)), m a fresh sha1.New()
hashAndEncode(str) == Sha1Hex(str)

\* a slip: the secret is appended before the first pass instead of the second
buildSignature_SecretInFirstPass(elementsToHash, sharedSecret) ==
    hashAndEncode(hashAndEncode(Join(elementsToHash, <<".">>) \o <<".">> \o sharedSecret))

\* a slip: the signature the receiver already holds is hashed with the secret
buildSignature_ReadsSignature(elementsToHash, sharedSecret) ==
    LET hashedElementsString == hashAndEncode(Join(elementsToHash, <<".">>))
    IN  hashAndEncode(hashedElementsString \o request.Sha1Hash \o <<".">> \o sharedSecret)

\* a slip: the elements are joined without a delimiter
buildSignature_NoDelimiter(elementsToHash, sharedSecret) ==
    LET hashedElementsString == hashAndEncode(Join(elementsToHash, EmptyString))
    IN  hashAndEncode(hashedElementsString \o <<".">> \o sharedSecret)

buildSignature(elementsToHash, sharedSecret) ==
    LET hashedElementsString == hashAndEncode(Join(elementsToHash, <<".">>))
    IN  hashAndEncode(hashedElementsString \o <<".">> \o sharedSecret)

(* ------------------------------ time ----------------------------------- *)

Pad2(n) == << Digit(n \div 10), Digit(n % 10) >>
Pad4(n) == << Digit(n \div 1000), Digit((n \div 100) % 10),
              Digit((n \div 10) % 10), Digit(n % 10) >>

\* t.Format("20060102150405"): year, month, day, hour, minute, second
formatTime(t) ==
    Pad4(t.year) \o Pad2(t.month) \o Pad2(t.day) \o
    Pad2(t.hour) \o Pad2(t.minute) \o Pad2(t.second)

\* the instant the repository's tests pin Now to, time.Unix(1528969800, 0)
StartTime == [year |-> 2018, month |-> 6, day |-> 14,
              hour |-> 9, minute |-> 50, second |-> 0]

(* --------------------------- client -------------------------------------*)

DefaultPath == << "/epage-remote.cgi" >>

\* a path url.Parse rejects: "%" not followed by two hexadecimal digits
InvalidEscape == "%zz"
Paths == { DefaultPath, << InvalidEscape >> }
DefaultMerchantID == << "m", "i", "d" >>

Secret(i) == << "s", Digit(i) >>
Secrets == { Secret(i) : i \in 1..NumSecrets }

\* the clients NewClient can return: the ordinary secret, the rebate secret
\* and the service path are set independently by options
Clients ==
    [ HashSecret : Secrets, RebateHashSecret : Secrets,
      MerchantID : { DefaultMerchantID }, Path : Paths ]

(* --------------------------- requests -----------------------------------*)

Ref(i) == << "p", Digit(i) >>
Refs == { Ref(i) : i \in 1..NumRefs }

Amounts == { Nil,
             << [Amount |-> EmptyString, Currency |-> EmptyString] >>,
             << [Amount |-> <<"1","0">>, Currency |-> <<"E","U","R">>] >> }

Payers == { Nil, << [Ref |-> EmptyString] >>, << [Ref |-> Ref(1)] >> }

Cards == { Nil,
           << [Ref |-> EmptyString, PayerRef |-> EmptyString, Number |-> EmptyString,
               ExpDate |-> EmptyString, CardHolderName |-> EmptyString] >>,
           << [Ref |-> <<"c","r">>, PayerRef |-> Ref(2), Number |-> <<"4","2">>,
               ExpDate |-> <<"0","5","1","9">>, CardHolderName |-> <<"J","M">>] >> }

\* what the caller may have left in the fields every operation overwrites:
\* zero values, or the remains of an earlier use of the request object
Presets ==
    { [Type |-> EmptyString, Timestamp |-> EmptyString, MerchantID |-> EmptyString,
       Sha1Hash |-> EmptyString, elementsToHash |-> << >>, sharedSecret |-> EmptyString],
      [Type |-> <<"o","l","d">>, Timestamp |-> <<"1","9","9","9">>,
       MerchantID |-> <<"x">>, Sha1Hash |-> <<"f","f">>,
       elementsToHash |-> << <<"e">> >>, sharedSecret |-> <<"z">>] }

\* CardStorageRequest values a caller may pass to an operation
Requests ==
    { [ Type |-> p.Type, Timestamp |-> p.Timestamp, MerchantID |-> p.MerchantID,
        OrderID |-> <<"o","i","d">>, PayerRef |-> pr,
        PaymentMethod |-> <<"p","m">>, Sha1Hash |-> p.Sha1Hash,
        Amount |-> a, Payer |-> py, Card |-> c,
        elementsToHash |-> p.elementsToHash, sharedSecret |-> p.sharedSecret ] :
      p \in Presets, pr \in Refs, a \in Amounts, py \in Payers, c \in Cards }

\* used getters for objects used within the hash
getPayerRef(r) == IF r.Payer # Nil THEN r.Payer[1].Ref ELSE EmptyString
getAmount(r) == IF r.Amount # Nil THEN r.Amount[1].Amount ELSE EmptyString
getCurrency(r) == IF r.Amount # Nil THEN r.Amount[1].Currency ELSE EmptyString
getCardHolderName(r) == IF r.Card # Nil THEN r.Card[1].CardHolderName ELSE EmptyString
getCardNumber(r) == IF r.Card # Nil THEN r.Card[1].Number ELSE EmptyString
getCardRef(r) == IF r.Card # Nil THEN r.Card[1].Ref ELSE EmptyString
getCardExpDate(r) == IF r.Card # Nil THEN r.Card[1].ExpDate ELSE EmptyString

(* ------------------- operation request builders ------------------------ *)

AuthorizeElements(r) ==
    << r.Timestamp, r.MerchantID, r.OrderID, r.Amount[1].Amount, r.Amount[1].Currency, r.PayerRef >>
\* a slip: the signature field is signed with the other fields
ValidateElements_WithSignature(r) ==
    << r.Timestamp, r.MerchantID, r.OrderID, r.PayerRef, r.Sha1Hash >>
ValidateElements(r) ==
    << r.Timestamp, r.MerchantID, r.OrderID, r.PayerRef >>
CreditElements(r) ==
    << r.Timestamp, r.MerchantID, r.OrderID, getAmount(r), getCurrency(r), r.PayerRef >>
\* a slip: the header payer reference in place of the nested payer's
CreateCustomerElements_HeaderRef(r) ==
    << r.Timestamp, r.MerchantID, r.OrderID, getAmount(r), getCurrency(r), r.PayerRef >>
CreateCustomerElements(r) ==
    << r.Timestamp, r.MerchantID, r.OrderID, getAmount(r), getCurrency(r), getPayerRef(r) >>
\* a slip: the type code is signed as a seventh element
EditCustomerElements_WithType(r) ==
    << r.Timestamp, r.MerchantID, r.OrderID, getAmount(r), getCurrency(r), r.PayerRef,
       r.Type >>
EditCustomerElements(r) ==
    << r.Timestamp, r.MerchantID, r.OrderID, getAmount(r), getCurrency(r), r.PayerRef >>
\* a slip: card number and card holder name swapped
StoreCardElements_Swapped(r) ==
    << r.Timestamp, r.MerchantID, r.OrderID, getAmount(r), getCurrency(r), r.PayerRef,
       getCardNumber(r), getCardHolderName(r) >>
StoreCardElements(r) ==
    << r.Timestamp, r.MerchantID, r.OrderID, getAmount(r), getCurrency(r), r.PayerRef,
       getCardHolderName(r), getCardNumber(r) >>
\* a slip: the payer reference of the card block in place of the request's
EditCardElements_CardPayerRef(r) ==
    << r.Timestamp, r.MerchantID,
       IF r.Card # Nil THEN r.Card[1].PayerRef ELSE EmptyString,
       getCardRef(r), getCardExpDate(r), getCardNumber(r) >>
EditCardElements(r) ==
    << r.Timestamp, r.MerchantID, r.PayerRef, getCardRef(r), getCardExpDate(r), getCardNumber(r) >>
DeleteCardElements(r) ==
    << r.Timestamp, r.MerchantID, r.PayerRef, getCardRef(r) >>

AuthorizeSecret(c) == c.HashSecret
ValidateSecret(c) == c.HashSecret
\* a slip: Credit signed with the ordinary secret
CreditSecret_Ordinary(c) == c.HashSecret
CreditSecret(c) == c.RebateHashSecret
CreateCustomerSecret(c) == c.HashSecret
EditCustomerSecret(c) == c.HashSecret
StoreCardSecret(c) == c.HashSecret
EditCardSecret(c) == c.HashSecret
DeleteCardSecret(c) == c.HashSecret

\* the operations of CardStorageService
OperationNames ==
    { "Authorize", "Validate", "Credit", "CreateCustomer", "EditCustomer",
      "StoreCard", "EditCard", "DeleteCard" }

\* request.Type literals, one per operation
AuthorizeType == << "receipt-in" >>
ValidateType == << "receipt-in-otb" >>
\* a slip: the type code of an earlier revision of Credit
CreditType_PaymentOuts == << "payment-outs" >>
CreditType == << "payment-out" >>
CreateCustomerType == << "payer-new" >>
EditCustomerType == << "payer-edit" >>
StoreCardType == << "card-new" >>
EditCardType == << "card-update-card" >>
DeleteCardType == << "card-cancel-card" >>

\* a slip: stamping also resets the payment method of the request
Stamp_ClearsPaymentMethod(r, typ) ==
    [r EXCEPT !.Timestamp = formatTime(now),
              !.MerchantID = client.MerchantID,
              !.Type = typ,
              !.PaymentMethod = EmptyString]

\* request.Timestamp, request.MerchantID and request.Type assignments
Stamp(r, typ) ==
    [r EXCEPT !.Timestamp = formatTime(now),
              !.MerchantID = client.MerchantID,
              !.Type = typ]

\* request.elementsToHash, request.sharedSecret, then request.Sha1Hash = signature
Sign(r, elements, secret) ==
    [r EXCEPT !.elementsToHash = elements,
              !.sharedSecret = secret,
              !.Sha1Hash = buildSignature(elements, secret)]

(* ----------------------- transmission pipeline ------------------------- *)

\* a slip: the signing context is exported and encoded with the request
XmlEncode_WithContext(r) ==
    [ type |-> r.Type, timestamp |-> r.Timestamp, merchantid |-> r.MerchantID,
      orderid |-> r.OrderID, payerref |-> r.PayerRef, paymentmethod |-> r.PaymentMethod,
      sha1hash |-> r.Sha1Hash, amount |-> r.Amount, payer |-> r.Payer, card |-> r.Card,
      elementstohash |-> r.elementsToHash, sharedsecret |-> r.sharedSecret ]

\* xml.Encoder.Encode(body): the exported, tagged fields of CardStorageRequest;
\* the embedded serviceAuthenticator is unexported and is not encoded
XmlEncode(r) ==
    [ type |-> r.Type, timestamp |-> r.Timestamp, merchantid |-> r.MerchantID,
      orderid |-> r.OrderID, payerref |-> r.PayerRef, paymentmethod |-> r.PaymentMethod,
      sha1hash |-> r.Sha1Hash, amount |-> r.Amount, payer |-> r.Payer, card |-> r.Card ]

\* client.BaseURL.Parse(urlStr) succeeds
UrlParses(urlStr) == \A i \in 1..Len(urlStr) : urlStr[i] # InvalidEscape

\* a slip: the error of BaseURL.Parse is dropped and the request is built
NewRequest_IgnoresParseError(method, urlStr, body) ==
    [ req |-> << [ Method |-> method, URL |-> [Path |-> urlStr],
                   Body |-> XmlEncode(body) ] >>,
      err |-> Nil ]

\* the *http.Request and the error client.NewRequest returns
NewRequest(method, urlStr, body) ==
    IF ~UrlParses(urlStr)
    THEN [ req |-> Nil, err |-> << [ kind |-> "url.Error", Response |-> Nil ] >> ]
    ELSE [ req |-> << [ Method |-> method, URL |-> [Path |-> urlStr],
                        Body |-> XmlEncode(body) ] >>,
           err |-> Nil ]

NoOp == "none"
NoWire == << >>
NoReply == << >>
NoReturn == [ response |-> Nil, httpResponse |-> Nil, err |-> Nil ]
NoTrace == << >>
NoOptions == << >>

\* transmitRequest's results when NewRequest fails
NewRequestFailed(err) == [ response |-> Nil, httpResponse |-> Nil, err |-> err ]

\* the body of one operation up to the point where the POST is ready to be
\* sent, or to its return when NewRequest fails; elements is the element list
\* built from the stamped request
Operation(name, typ, nilDeref, elements, secret) ==
    /\ pc = "idle"
    /\ op' = name
    /\ LET stamped == Stamp(request, typ)
       IN  IF nilDeref
           THEN \* nil pointer dereference while building the element list
                /\ request' = stamped
                /\ pc' = "panicked"
                /\ UNCHANGED << wire, ret, trace >>
           ELSE LET signed == Sign(stamped, elements, secret)
                    httpRequest == NewRequest("POST", client.Path, signed)
                IN  /\ request' = signed
                    /\ trace' = << "buildSignature", "NewRequest" >>
                    /\ IF httpRequest.err # Nil
                       THEN /\ ret' = NewRequestFailed(httpRequest.err)
                            /\ pc' = "returned"
                            /\ wire' = wire
                       ELSE /\ wire' = httpRequest.req
                            /\ pc' = "transmitting"
                            /\ ret' = ret
    /\ UNCHANGED << client, options, now, reply >>

Authorize ==
    Operation("Authorize", AuthorizeType, request.Amount = Nil,
              AuthorizeElements(Stamp(request, AuthorizeType)),
              AuthorizeSecret(client))
\* a slip: the element list is built before the request is stamped, as an
\* earlier revision of the operations did
Validate_ElementsBeforeStamp ==
    Operation("Validate", ValidateType, FALSE,
              ValidateElements(request),
              ValidateSecret(client))
Validate ==
    Operation("Validate", ValidateType, FALSE,
              ValidateElements(Stamp(request, ValidateType)),
              ValidateSecret(client))
Credit ==
    Operation("Credit", CreditType, FALSE,
              CreditElements(Stamp(request, CreditType)),
              CreditSecret(client))
CreateCustomer ==
    Operation("CreateCustomer", CreateCustomerType, FALSE,
              CreateCustomerElements(Stamp(request, CreateCustomerType)),
              CreateCustomerSecret(client))
EditCustomer ==
    Operation("EditCustomer", EditCustomerType, FALSE,
              EditCustomerElements(Stamp(request, EditCustomerType)),
              EditCustomerSecret(client))
StoreCard ==
    Operation("StoreCard", StoreCardType, FALSE,
              StoreCardElements(Stamp(request, StoreCardType)),
              StoreCardSecret(client))
EditCard ==
    Operation("EditCard", EditCardType, FALSE,
              EditCardElements(Stamp(request, EditCardType)),
              EditCardSecret(client))
DeleteCard ==
    Operation("DeleteCard", DeleteCardType, FALSE,
              DeleteCardElements(Stamp(request, DeleteCardType)),
              DeleteCardSecret(client))

(* --------------------------- the gateway ------------------------------- *)

StatusCodes == { 200, 500 }

AuthCodes == { Nil, << <<"1","2","3","4","5">> >> }

\* the seven values the gateway signs in a response document
GatewaySigned(d) ==
    << d.timestamp, d.merchantid, d.orderid, d.result, d.message, d.pasref,
       IF d.authcode = Nil THEN EmptyString ELSE d.authcode[1] >>

\* signatures a reply may carry: the gateway's, under any secret; none at all;
\* one computed without the auth code slot
GatewayHashes(d) ==
    { ChainedSignature(GatewaySigned(d), s) : s \in Secrets }
      \cup { ChainedSignature(SubSeq(GatewaySigned(d), 1, 6), s) : s \in Secrets }
      \cup { EmptyString }

UnsignedDocs ==
    { [ timestamp |-> <<"2","0","1","8","0","7","3","1","0","9","0","8","5","9">>,
        merchantid |-> <<"M","I","D">>, orderid |-> <<"O","I","D">>,
        authcode |-> a, result |-> <<"0","0">>, message |-> <<"O","K">>,
        pasref |-> <<"P","R">> ] : a \in AuthCodes }

\* response documents a reply may carry
ResponseDocs ==
    UNION { { [ timestamp |-> d.timestamp, merchantid |-> d.merchantid,
                orderid |-> d.orderid, authcode |-> d.authcode, result |-> d.result,
                message |-> d.message, pasref |-> d.pasref, sha1hash |-> h ] :
              h \in GatewayHashes(d) } : d \in UnsignedDocs }

(* ------------------------ response validator --------------------------- *)

\* xml.Decoder.Decode(v) into a fresh ServiceResponse: an absent element
\* leaves the zero value; the embedded serviceAuthenticator is not decoded
XmlDecode(d) ==
    [ Timestamp |-> d.timestamp, MerchantID |-> d.merchantid, OrderID |-> d.orderid,
      AuthCode |-> IF d.authcode = Nil THEN EmptyString ELSE d.authcode[1],
      Result |-> d.result, Message |-> d.message, PasRef |-> d.pasref,
      Sha1Hash |-> d.sha1hash,
      elementsToHash |-> << >>, sharedSecret |-> EmptyString ]

ResponseElements(response) ==
    << response.Timestamp, response.MerchantID, response.OrderID, response.Result,
       response.Message, response.PasRef, response.AuthCode >>

\* a slip: the response checked with the secret the request was signed with
ResponseSecret_Rebate(c) == c.RebateHashSecret
ResponseSecret(c) == c.HashSecret

ValidationError(httpResponse) ==
    << [ kind |-> "ValidationError", Response |-> httpResponse ] >>

\* a slip: a response that carries no signature passes
validateResponseHash_AcceptsUnsigned(response, httpResponse) ==
    IF response.Sha1Hash = EmptyString
         \/ buildSignature(response.elementsToHash, response.sharedSecret) = response.Sha1Hash
    THEN Nil
    ELSE ValidationError(httpResponse)

\* a slip: an exchange without a request is reported as a mismatch
validateResponseHash_NeedsRequest(response, httpResponse) ==
    IF httpResponse[1].Request # Nil
         /\ buildSignature(response.elementsToHash, response.sharedSecret) = response.Sha1Hash
    THEN Nil
    ELSE ValidationError(httpResponse)

validateResponseHash(response, httpResponse) ==
    LET signature == buildSignature(response.elementsToHash, response.sharedSecret)
    IN  IF signature = response.Sha1Hash
        THEN Nil
        ELSE ValidationError(httpResponse)

RECURSIVE Itoa(_)
Itoa(n) == IF n < 10 THEN << Digit(n) >> ELSE Itoa(n \div 10) \o << Digit(n % 10) >>

\* ValidationError.Error(), defined when the exchange carries its request
ErrorMessage(e) ==
    <<"Validation Hash Error: method: ", e.Response[1].Request[1].Method, ", path: ">>
      \o e.Response[1].Request[1].URL.Path
      \o <<", status code:">> \o Itoa(e.Response[1].StatusCode)

\* a slip: the decoded response is returned beside the error
TransmitResult_KeepsResponse(response, httpResponse, err) ==
    [ response |-> << response >>, httpResponse |-> httpResponse, err |-> err ]

\* a slip: the exchange is dropped when validation fails
TransmitResult_DropsExchange(response, httpResponse, err) ==
    IF err # Nil
    THEN [ response |-> Nil, httpResponse |-> Nil, err |-> err ]
    ELSE [ response |-> << response >>, httpResponse |-> httpResponse, err |-> Nil ]

\* transmitRequest's results once the body is decoded and validated
TransmitResult(response, httpResponse, err) ==
    IF err # Nil
    THEN [ response |-> Nil, httpResponse |-> httpResponse, err |-> err ]
    ELSE [ response |-> << response >>, httpResponse |-> httpResponse, err |-> Nil ]

(* ------------------------- client.Do outcomes -------------------------- *)

\* errors HTTPClient.Do may return, and errors of xml.Decoder.Decode
TransportErrors ==
    { [ kind |-> "connection refused", Response |-> Nil ],
      [ kind |-> "context deadline exceeded", Response |-> Nil ] }
DecodeErrors ==
    { [ kind |-> "EOF", Response |-> Nil ],
      [ kind |-> "XML syntax error", Response |-> Nil ] }

\* a slip: the error of client.Do is wrapped in the package's own error
DoFailed_WrapsError(err) ==
    [ response |-> Nil, httpResponse |-> Nil, err |-> ValidationError(Nil) ]

\* a slip: the response allocated before the call is returned beside the error
DoFailed_KeepsResponse(err) ==
    [ response |-> << XmlDecode([ timestamp |-> EmptyString, merchantid |-> EmptyString,
                                  orderid |-> EmptyString, authcode |-> Nil,
                                  result |-> EmptyString, message |-> EmptyString,
                                  pasref |-> EmptyString, sha1hash |-> EmptyString ]) >>,
      httpResponse |-> Nil, err |-> err ]

\* transmitRequest's results when client.Do fails: Do has returned a nil exchange
DoFailed(err) == [ response |-> Nil, httpResponse |-> Nil, err |-> err ]

\* a slip: a failed exchange is attempted again
TransportFails_Retries ==
    /\ pc = "transmitting"
    /\ Len(trace) < 6
    /\ \E e \in TransportErrors :
         /\ reply' = << [ kind |-> "transport", status |-> 0, doc |-> Nil, err |-> << e >> ] >>
         /\ ret' = DoFailed(<< e >>)
    /\ trace' = trace \o << "HTTPClient.Do" >>
    /\ pc' = "transmitting"
    /\ UNCHANGED << client, options, now, request, op, wire >>

\* HTTPClient.Do fails: no exchange, the transport's error
TransportFails ==
    /\ pc = "transmitting"
    /\ \E e \in TransportErrors :
         /\ reply' = << [ kind |-> "transport", status |-> 0, doc |-> Nil, err |-> << e >> ] >>
         /\ ret' = DoFailed(<< e >>)
    /\ trace' = trace \o << "HTTPClient.Do" >>
    /\ pc' = "returned"
    /\ UNCHANGED << client, options, now, request, op, wire >>

\* the body does not decode: client.Do returns nil and the decoder's error
DecodeFails ==
    /\ pc = "transmitting"
    /\ \E status \in StatusCodes, e \in DecodeErrors :
         /\ reply' = << [ kind |-> "undecodable", status |-> status, doc |-> Nil,
                          err |-> << e >> ] >>
         /\ ret' = DoFailed(<< e >>)
    /\ trace' = trace \o << "HTTPClient.Do", "Decode" >>
    /\ pc' = "returned"
    /\ UNCHANGED << client, options, now, request, op, wire >>

\* the exchange succeeds and the body decodes: the rest of transmitRequest
ResponseArrives ==
    /\ pc = "transmitting"
    /\ \E status \in StatusCodes, d \in ResponseDocs :
         LET httpResponse == << [ StatusCode |-> status,
                                  Request |-> << [ Method |-> wire[1].Method,
                                                   URL |-> wire[1].URL ] >> ] >>
             decoded == XmlDecode(d)
             response == [ decoded EXCEPT
                             !.elementsToHash = ResponseElements(decoded),
                             !.sharedSecret = ResponseSecret(client) ]
             err == validateResponseHash(response, httpResponse)
         IN  /\ reply' = << [ kind |-> "document", status |-> status, doc |-> << d >>,
                              err |-> Nil ] >>
             /\ ret' = TransmitResult(response, httpResponse, err)
    /\ trace' = trace \o << "HTTPClient.Do", "Decode", "validateResponseHash" >>
    /\ pc' = "returned"
    /\ UNCHANGED << client, options, now, request, op, wire >>

(* -------------------------- the time source ---------------------------- *)

\* time passes between the construction of the request and the call
Tick ==
    /\ pc = "idle"
    /\ now.second < StartTime.second + MaxClock
    /\ now' = [ now EXCEPT !.second = @ + 1 ]
    /\ UNCHANGED << client, options, request, op, pc, wire, reply, ret, trace >>

(* --------------------------- specification ----------------------------- *)

Init ==
    /\ client \in Clients
    /\ options = NoOptions
    /\ now = StartTime
    /\ request \in Requests
    /\ op = NoOp
    /\ pc = "idle"
    /\ wire = NoWire
    /\ reply = NoReply
    /\ ret = NoReturn
    /\ trace = NoTrace

Next ==
    \/ Authorize
    \/ Validate
    \/ Credit
    \/ CreateCustomer
    \/ EditCustomer
    \/ StoreCard
    \/ EditCard
    \/ DeleteCard
    \/ TransportFails
    \/ DecodeFails
    \/ ResponseArrives
    \/ Tick

Spec == Init /\ [][Next]_vars

(* ------------- the signature engine and the validator alone ------------ *)
(* buildSignature and validateResponseHash called directly on values the   *)
(* caller has prepared, as the repository's unit tests call them.          *)

ElementPool ==
    { EmptyString, <<"a">>, <<".">>, <<"e","l","e","m","1">>, <<"e","l","e","m","2">> }

RECURSIVE ElementLists(_)
ElementLists(n) ==
    IF n = 0 THEN { << >> }
    ELSE ElementLists(n - 1)
           \cup { Append(l, e) : l \in { x \in ElementLists(n - 1) : Len(x) = n - 1 },
                                 e \in ElementPool }

TestSecrets == Secrets \cup { EmptyString, <<"t","e","s","t">> }

BlankRequest ==
    [ Type |-> EmptyString, Timestamp |-> EmptyString, MerchantID |-> EmptyString,
      OrderID |-> EmptyString, PayerRef |-> EmptyString, PaymentMethod |-> EmptyString,
      Sha1Hash |-> EmptyString, Amount |-> Nil, Payer |-> Nil, Card |-> Nil,
      elementsToHash |-> << >>, sharedSecret |-> EmptyString ]

\* &CardStorageRequest{serviceAuthenticator{sharedSecret: ..., elementsToHash: ...}}
TestRequests ==
    { [ BlankRequest EXCEPT !.elementsToHash = l, !.sharedSecret = s ] :
      l \in ElementLists(MaxElems), s \in TestSecrets }

\* &http.Response{} and an exchange that carries its request
TestExchanges ==
    { << [ StatusCode |-> 0, Request |-> Nil ] >> }
      \cup { << [ StatusCode |-> st,
                  Request |-> << [ Method |-> "POST", URL |-> [Path |-> <<"/test">>] ] >> ] >> :
             st \in StatusCodes }

\* a ServiceResponse with its secret, then response.elementsToHash set from its fields
TestResponses ==
    { [ XmlDecode(d) EXCEPT !.elementsToHash = ResponseElements(XmlDecode(d)),
                            !.sharedSecret = s ] :
      d \in ResponseDocs, s \in Secrets }

\* hex.EncodeToString for the bytes the test marshallers return
HexDigits ==
    [ H |-> << "4", "8" >>, e |-> << "6", "5" >>, l |-> << "6", "c" >>,
      o |-> << "6", "f" >> ]

RECURSIVE HexEncode(_)
HexEncode(bytes) ==
    IF bytes = << >> THEN EmptyString
    ELSE HexDigits[bytes[1]] \o HexEncode(Tail(bytes))

\* a write error a Marshaller may return
WriteError == << [ kind |-> "write failed", Response |-> Nil ] >>

\* &MockMarshaller{}: it logs its calls, keeps the bytes written and returns a
\* fixed digest; writeErr is what its Write returns
MockMarshallers ==
    { [ calls |-> << >>, p |-> Nil, digest |-> d, writeErr |-> e ] :
      d \in { << "H", "e", "l", "l", "o" >>, << "l", "o" >>, << >> },
      e \in { Nil, WriteError } }

\* const message, and other strings to hash
Messages == { << "hello world" >>, << "a", ".", "b" >>, EmptyString }

\* mock.Write(p)
MockWrite(m, p) == [ m EXCEPT !.calls = Append(@, "write"), !.p = << p >> ]

\* mock.Sum(nil)
MockSum(m) == [ m EXCEPT !.calls = Append(@, "sum") ]

\* a slip: the digest is read although the write failed
hashAndEncodeMarshaller_SumAfterFailedWrite(m, str) ==
    LET written == MockWrite(m, str)
    IN  IF written.writeErr # Nil
        THEN [ m |-> MockSum(written), hashAndEncodedString |-> EmptyString,
               err |-> written.writeErr ]
        ELSE [ m |-> MockSum(written),
               hashAndEncodedString |-> HexEncode(MockSum(written).digest),
               err |-> Nil ]

\* hashAndEncode(m, str) on a Marshaller the caller passes: the marshaller
\* after the call and the two results
hashAndEncodeMarshaller(m, str) ==
    LET written == MockWrite(m, str)
    IN  IF written.writeErr # Nil
        THEN [ m |-> written, hashAndEncodedString |-> EmptyString,
               err |-> written.writeErr ]
        ELSE [ m |-> MockSum(written),
               hashAndEncodedString |-> HexEncode(MockSum(written).digest),
               err |-> Nil ]

InitUnit ==
    /\ client \in Clients
    /\ options = NoOptions
    /\ now = StartTime
    /\ pc = "test"
    /\ wire = NoWire
    /\ ret = NoReturn
    /\ trace = NoTrace
    /\ \/ /\ op = "buildSignature"
          /\ request \in TestRequests
          /\ reply = NoReply
       \/ /\ op = "validateResponseHash"
          /\ request = BlankRequest
          /\ reply \in { << [ response |-> r, httpResponse |-> h ] >> :
                         r \in TestResponses, h \in TestExchanges }
       \/ /\ op = "hashAndEncode"
          /\ request = BlankRequest
          /\ reply \in { << [ marshaller |-> m, message |-> str ] >> :
                         m \in MockMarshallers, str \in Messages }

\* request.Sha1Hash, _ = request.buildSignature()
TestBuildSignature ==
    /\ pc = "test"
    /\ op = "buildSignature"
    /\ request' = [ request EXCEPT
                      !.Sha1Hash = buildSignature(request.elementsToHash, request.sharedSecret) ]
    /\ pc' = "tested"
    /\ UNCHANGED << client, options, now, op, wire, reply, ret, trace >>

\* err := response.validateResponseHash(httpResponse)
TestValidateResponseHash ==
    /\ pc = "test"
    /\ op = "validateResponseHash"
    /\ ret' = [ response |-> << reply[1].response >>,
                httpResponse |-> reply[1].httpResponse,
                err |-> validateResponseHash(reply[1].response, reply[1].httpResponse) ]
    /\ pc' = "tested"
    /\ UNCHANGED << client, options, now, request, op, wire, reply, trace >>

\* a second request.buildSignature() on the same receiver, which now holds the
\* first signature; the caller keeps the second result beside it
TestBuildSignatureAgain ==
    /\ pc = "tested"
    /\ op = "buildSignature"
    /\ reply' = << [ signature |-> buildSignature(request.elementsToHash,
                                                  request.sharedSecret),
                     err |-> Nil ] >>
    /\ pc' = "retested"
    /\ UNCHANGED << client, options, now, request, op, wire, ret, trace >>

\* hashedValue, err := authenticator.hashAndEncode(mock, message)
TestHashAndEncode ==
    /\ pc = "test"
    /\ op = "hashAndEncode"
    /\ LET result == hashAndEncodeMarshaller(reply[1].marshaller, reply[1].message)
       IN  /\ reply' = << [ reply[1] EXCEPT !.marshaller = result.m ] >>
           /\ ret' = [ response |-> Nil, httpResponse |-> Nil, err |-> result.err,
                       hashAndEncodedString |-> result.hashAndEncodedString ]
    /\ pc' = "tested"
    /\ UNCHANGED << client, options, now, request, op, wire, trace >>

NextUnit ==
    \/ TestHashAndEncode
    \/ TestBuildSignature
    \/ TestBuildSignatureAgain
    \/ TestValidateResponseHash

SpecUnit == InitUnit /\ [][NextUnit]_vars

(* ---------------- several callers on one client at once ----------------- *)
(* Each caller runs one operation on its own request object; the statements *)
(* of the callers interleave. request, op, pc and wire hold one value per    *)
(* caller.                                                                   *)

Callers == 1..NumCallers

\* the client the callers share
SharedClients ==
    { c \in Clients : /\ c.Path = DefaultPath
                      /\ c.HashSecret = Secret(1)
                      /\ c.RebateHashSecret = Secret(2) }

\* the request objects of caller c, which carry its own order id: one without
\* nested groups that was used before, one with every group that is fresh
CallerRequests(c) ==
    { [ r EXCEPT !.OrderID = << "o", Digit(c) >> ] :
      r \in { q \in Requests :
                /\ q.PayerRef = Ref(1)
                /\ \/ /\ q.Amount = Nil /\ q.Payer = Nil /\ q.Card = Nil
                      /\ q.Sha1Hash # EmptyString
                   \/ /\ q.Amount # Nil /\ q.Payer # Nil /\ q.Card # Nil
                      /\ q.Amount[1].Amount # EmptyString
                      /\ q.Payer[1].Ref # EmptyString
                      /\ q.Card[1].Ref # EmptyString
                      /\ q.Sha1Hash = EmptyString } }

\* the operations the callers run: the one that reads Amount directly, the one
\* signed with the rebate secret, the one that signs the nested payer ref and
\* one that signs card fields
ConcurrentOperations == { "Authorize", "Credit", "CreateCustomer", "EditCard" }

OperationType(name) ==
    CASE name = "Authorize" -> AuthorizeType
      [] name = "Validate" -> ValidateType
      [] name = "Credit" -> CreditType
      [] name = "CreateCustomer" -> CreateCustomerType
      [] name = "EditCustomer" -> EditCustomerType
      [] name = "StoreCard" -> StoreCardType
      [] name = "EditCard" -> EditCardType
      [] name = "DeleteCard" -> DeleteCardType

OperationElements(name, r) ==
    CASE name = "Authorize" -> AuthorizeElements(r)
      [] name = "Validate" -> ValidateElements(r)
      [] name = "Credit" -> CreditElements(r)
      [] name = "CreateCustomer" -> CreateCustomerElements(r)
      [] name = "EditCustomer" -> EditCustomerElements(r)
      [] name = "StoreCard" -> StoreCardElements(r)
      [] name = "EditCard" -> EditCardElements(r)
      [] name = "DeleteCard" -> DeleteCardElements(r)

OperationSecret(name, c) ==
    CASE name = "Authorize" -> AuthorizeSecret(c)
      [] name = "Validate" -> ValidateSecret(c)
      [] name = "Credit" -> CreditSecret(c)
      [] name = "CreateCustomer" -> CreateCustomerSecret(c)
      [] name = "EditCustomer" -> EditCustomerSecret(c)
      [] name = "StoreCard" -> StoreCardSecret(c)
      [] name = "EditCard" -> EditCardSecret(c)
      [] name = "DeleteCard" -> DeleteCardSecret(c)

\* a slip: one signing context kept for the service instead of one per request
SigningContext_Shared(c) == request[1]

\* the serviceAuthenticator buildSignature is called on: the one embedded in
\* the caller's own request
SigningContext(c) == request[c]

\* request.Timestamp, request.MerchantID and request.Type assignments
CallerStamps(c) ==
    /\ pc[c] = "idle"
    /\ \E name \in ConcurrentOperations :
         /\ op' = [ op EXCEPT ![c] = name ]
         /\ request' = [ request EXCEPT ![c] = Stamp(request[c], OperationType(name)) ]
    /\ pc' = [ pc EXCEPT ![c] = "stamped" ]
    /\ UNCHANGED << client, options, now, wire, reply, ret, trace >>

\* request.elementsToHash and request.sharedSecret assignments
CallerBuildsList(c) ==
    /\ pc[c] = "stamped"
    /\ IF op[c] = "Authorize" /\ request[c].Amount = Nil
       THEN \* nil pointer dereference
            /\ pc' = [ pc EXCEPT ![c] = "panicked" ]
            /\ request' = request
       ELSE /\ request' = [ request EXCEPT
                              ![c].elementsToHash = OperationElements(op[c], request[c]),
                              ![c].sharedSecret = OperationSecret(op[c], client) ]
            /\ pc' = [ pc EXCEPT ![c] = "listed" ]
    /\ UNCHANGED << client, options, now, op, wire, reply, ret, trace >>

\* signature, _ := request.buildSignature(); request.Sha1Hash = signature;
\* then transmitRequest up to the point where the POST is ready to be sent
CallerSigns(c) ==
    /\ pc[c] = "listed"
    /\ LET signature == buildSignature(SigningContext(c).elementsToHash,
                                       SigningContext(c).sharedSecret)
           signed == [ request[c] EXCEPT !.Sha1Hash = signature ]
       IN  /\ request' = [ request EXCEPT ![c] = signed ]
           /\ wire' = [ wire EXCEPT ![c] = NewRequest("POST", client.Path, signed).req ]
    /\ pc' = [ pc EXCEPT ![c] = "transmitting" ]
    /\ UNCHANGED << client, options, now, op, reply, ret, trace >>

\* time passes while the callers run
ClockAdvances ==
    /\ now.second < StartTime.second + MaxClock
    /\ now' = [ now EXCEPT !.second = @ + 1 ]
    /\ UNCHANGED << client, options, request, op, pc, wire, reply, ret, trace >>

InitConcurrent ==
    /\ client \in SharedClients
    /\ options = NoOptions
    /\ now = StartTime
    /\ request \in { f \in [ Callers -> UNION { CallerRequests(c) : c \in Callers } ] :
                       \A c \in Callers : f[c] \in CallerRequests(c) }
    /\ op = [ c \in Callers |-> NoOp ]
    /\ pc = [ c \in Callers |-> "idle" ]
    /\ wire = [ c \in Callers |-> NoWire ]
    /\ reply = NoReply
    /\ ret = NoReturn
    /\ trace = NoTrace

NextConcurrent ==
    \/ \E c \in Callers : CallerStamps(c)
    \/ \E c \in Callers : CallerBuildsList(c)
    \/ \E c \in Callers : CallerSigns(c)
    \/ ClockAdvances

SpecConcurrent == InitConcurrent /\ [][NextConcurrent]_vars

(* ------------- the time source replaced while callers run -------------- *)
(* Now is a package-level variable: a test's setup assigns it a function     *)
(* that returns one fixed instant. now is the instant Now() returns.         *)

\* the wall clock when the callers start
WallStart == [year |-> 2020, month |-> 2, day |-> 4,
              hour |-> 15, minute |-> 59, second |-> 42]

\* Now = func() time.Time { return time.Unix(1528969800, 0) }
NowSubstituted ==
    /\ now # StartTime
    /\ now' = StartTime
    /\ UNCHANGED << client, options, request, op, pc, wire, reply, ret, trace >>

\* the wall clock advances; Now() follows it while Now is time.Now
WallClockAdvances ==
    /\ now # StartTime
    /\ now.second < WallStart.second + MaxClock
    /\ now' = [ now EXCEPT !.second = @ + 1 ]
    /\ UNCHANGED << client, options, request, op, pc, wire, reply, ret, trace >>

InitClock ==
    /\ client \in SharedClients
    /\ options = NoOptions
    /\ now = WallStart
    /\ request \in { f \in [ Callers -> UNION { CallerRequests(c) : c \in Callers } ] :
                       \A c \in Callers : f[c] \in CallerRequests(c) }
    /\ op = [ c \in Callers |-> NoOp ]
    /\ pc = [ c \in Callers |-> "idle" ]
    /\ wire = [ c \in Callers |-> NoWire ]
    /\ reply = NoReply
    /\ ret = NoReturn
    /\ trace = NoTrace

NextClock ==
    \/ \E c \in Callers : CallerStamps(c)
    \/ \E c \in Callers : CallerBuildsList(c)
    \/ \E c \in Callers : CallerSigns(c)
    \/ WallClockAdvances
    \/ NowSubstituted

SpecClock == InitClock /\ [][NextClock]_vars

(* ------------------------- client construction ------------------------- *)
(* NewClient(options...): options holds the list given, client the pointer   *)
(* returned (nil or one Client), trace the http.Client values allocated.     *)

DefaultBaseURL ==
    << [ Scheme |-> "https", Host |-> "test.realexpayments.com", Path |-> EmptyString ] >>
DefaultHashSecret == << "Po8lRRT67a" >>
DefaultRebateHash == << "Po8lRRT67a" >>

\* the n-th http.Client allocated; the caller's own is allocated before any call
HttpClient(n) == << [ allocated |-> n ] >>

\* what an option may assign to client.BaseURL: parsed URLs without a path, with
\* a path, with a path that ends in "/", url.Parse("testing.go") (no scheme, no
\* host), and the nil that url.Parse returns beside its error
BaseURLs ==
    { << [ Scheme |-> "https", Host |-> "testing.go", Path |-> EmptyString ] >>,
      << [ Scheme |-> "https", Host |-> "testing.go", Path |-> << "/api" >> ] >>,
      << [ Scheme |-> "https", Host |-> "testing.go", Path |-> << "/api", "/" >> ] >>,
      << [ Scheme |-> "https", Host |-> "testing.go", Path |-> << "/" >> ] >>,
      << [ Scheme |-> "", Host |-> "", Path |-> << "testing.go" >> ] >>,
      Nil }

\* func(*Client) values: each assigns one field
Options ==
    { [ field |-> "BaseURL", value |-> u ] : u \in BaseURLs }
      \cup { [ field |-> "HashSecret", value |-> x ] : x \in Secrets }
      \cup { [ field |-> "RebateHashSecret", value |-> Secret(1) ],
             [ field |-> "MerchantID", value |-> << "testMerchant" >> ],
             [ field |-> "HTTPClient", value |-> HttpClient(0) ],
             [ field |-> "Path", value |-> << "/test" >> ] }

RECURSIVE OptionLists(_)
OptionLists(n) ==
    IF n = 0 THEN { << >> }
    ELSE OptionLists(n - 1)
           \cup { Append(l, o) : l \in { x \in OptionLists(n - 1) : Len(x) = n - 1 },
                                 o \in Options }

\* strings.HasSuffix(s, suffix)
HasSuffix(str, suffix) ==
    /\ Len(str) >= Len(suffix)
    /\ SubSeq(str, Len(str) - Len(suffix) + 1, Len(str)) = suffix

\* a slip: only the path "/" itself is refused
TrailingSlash_RootOnly(url) == url.Path = << "/" >>

\* strings.HasSuffix(client.BaseURL.Path, "/")
TrailingSlash(url) == HasSuffix(url.Path, << "/" >>)

\* a slip: the options are applied last to first
RECURSIVE ApplyOptions_Reversed(_, _)
ApplyOptions_Reversed(c, opts) ==
    IF opts = << >> THEN c
    ELSE [ ApplyOptions_Reversed(c, Tail(opts)) EXCEPT ![opts[1].field] = opts[1].value ]

\* for _, option := range options { option(client) }
RECURSIVE ApplyOptions(_, _)
ApplyOptions(c, opts) ==
    IF opts = << >> THEN c
    ELSE ApplyOptions([ c EXCEPT ![opts[1].field] = opts[1].value ], Tail(opts))

\* the Client NewClient builds before it applies the options
DefaultClient(httpClient) ==
    [ HTTPClient |-> httpClient, BaseURL |-> DefaultBaseURL,
      HashSecret |-> DefaultHashSecret, RebateHashSecret |-> DefaultRebateHash,
      MerchantID |-> DefaultMerchantID, Path |-> DefaultPath ]

\* the body of NewClient after the http.Client is allocated
Construct(opts, httpClient) ==
    LET built == ApplyOptions(DefaultClient(httpClient), opts)
    IN  IF built.BaseURL = Nil
        THEN \* client.BaseURL.Path on a nil *url.URL
             [ outcome |-> "panicked", client |-> Nil, err |-> Nil ]
        ELSE IF TrailingSlash(built.BaseURL[1])
        THEN [ outcome |-> "failed", client |-> Nil,
               err |-> << [ kind |-> "baseURL contains a trailing slash",
                            Response |-> Nil ] >> ]
        ELSE [ outcome |-> "built", client |-> << built >>, err |-> Nil ]

\* httpClient := &http.Client{}
FreshHttpClient == HttpClient(Len(trace) + 1)

\* client, err := NewClient(options...)
NewClient ==
    /\ pc = "new"
    /\ LET result == Construct(options, FreshHttpClient)
       IN  /\ client' = result.client
           /\ ret' = [ response |-> Nil, httpResponse |-> Nil, err |-> result.err ]
           /\ pc' = result.outcome
    /\ trace' = Append(trace, "&http.Client{}")
    /\ UNCHANGED << options, now, request, op, wire, reply >>

\* clientTwo, _ := NewClient(options...), kept beside the first client
NewClientAgain ==
    /\ pc = "built"
    /\ LET result == Construct(options, FreshHttpClient)
       IN  reply' = result.client
    /\ trace' = Append(trace, "&http.Client{}")
    /\ pc' = "rebuilt"
    /\ UNCHANGED << client, options, now, request, op, wire, ret >>

\* the first call on the client built, as far as its base URL decides it:
\* NewRequest resolves the service path against BaseURL, HTTPClient.Do refuses
\* a URL without scheme or host
FirstCall ==
    /\ pc = "built"
    /\ LET url == client[1].BaseURL[1]
       IN  IF url.Scheme \notin { "http", "https" }
           THEN /\ ret' = DoFailed(<< [ kind |-> "unsupported protocol scheme",
                                        Response |-> Nil ] >>)
                /\ pc' = "call failed"
           ELSE IF url.Host = ""
           THEN /\ ret' = DoFailed(<< [ kind |-> "no Host in request URL",
                                        Response |-> Nil ] >>)
                /\ pc' = "call failed"
           ELSE /\ ret' = ret
                /\ pc' = "called"
    /\ UNCHANGED << client, options, now, request, op, wire, reply, trace >>

InitNewClient ==
    /\ client = Nil
    /\ options \in OptionLists(MaxOptions)
    /\ now = StartTime
    /\ request = BlankRequest
    /\ op = "NewClient"
    /\ pc = "new"
    /\ wire = NoWire
    /\ reply = NoReply
    /\ ret = NoReturn
    /\ trace = NoTrace

NextNewClient ==
    \/ NewClient
    \/ NewClientAgain
    \/ FirstCall

SpecNewClient == InitNewClient /\ [][NextNewClient]_vars

(* ============================== claims ================================= *)

Signed == pc \in { "transmitting", "returned" }

Answered == pc = "returned" /\ reply # NoReply /\ reply[1].kind = "document"

\* the document of the reply, and the signature the gateway's scheme gives it
ReplyDoc == reply[1].doc[1]
ReplyVerifies ==
    ReplyDoc.sha1hash = ChainedSignature(GatewaySigned(ReplyDoc), client.HashSecret)

AmountSlot == IF request.Amount = Nil THEN EmptyString ELSE request.Amount[1].Amount
CurrencySlot == IF request.Amount = Nil THEN EmptyString ELSE request.Amount[1].Currency
HolderSlot == IF request.Card = Nil THEN EmptyString ELSE request.Card[1].CardHolderName
NumberSlot == IF request.Card = Nil THEN EmptyString ELSE request.Card[1].Number
CardRefSlot == IF request.Card = Nil THEN EmptyString ELSE request.Card[1].Ref
ExpirySlot == IF request.Card = Nil THEN EmptyString ELSE request.Card[1].ExpDate
NestedPayerRefSlot == IF request.Payer = Nil THEN EmptyString ELSE request.Payer[1].Ref

\* C1: a response handed to the caller comes with a nil error and carries the
\* chained signature of its own timestamp, merchant id, order id, result,
\* message, pasref and auth code under the client's HashSecret
C1_OnlyVerifiedResponses ==
    ret.response # Nil =>
        LET r == ret.response[1]
        IN  /\ ret.err = Nil
            /\ r.Sha1Hash = ReplyDoc.sha1hash
            /\ r.Sha1Hash =
                 ChainedSignature(<< r.Timestamp, r.MerchantID, r.OrderID, r.Result,
                                     r.Message, r.PasRef, r.AuthCode >>, client.HashSecret)

C1_Witness ==
    /\ pc = "returned"
    /\ ret.response # Nil
    /\ op = "Authorize"

\* C2: buildSignature returns H(H(e1.e2. ... .en) . secret): the elements in
\* list order joined by ".", the secret entering the second pass only
C2_ChainedSignature ==
    (pc = "tested" /\ op = "buildSignature") =>
        request.Sha1Hash =
            Sha1Hex(Sha1Hex(DotJoined(request.elementsToHash))
                      \o <<".">> \o request.sharedSecret)

C2_Witness ==
    /\ pc = "tested"
    /\ op = "buildSignature"
    /\ request.elementsToHash = << <<"e","l","e","m","1">>, <<"e","l","e","m","2">> >>
    /\ request.sharedSecret = <<"t","e","s","t">>
    /\ request.Sha1Hash = Sha1Hex(Sha1Hex(<<"e","l","e","m","1",".","e","l","e","m","2">>)
                                    \o <<".","t","e","s","t">>)

StatusText(st) == CASE st = 200 -> <<"2","0","0">> [] st = 500 -> <<"5","0","0">>

\* C3: a decoded response whose signature differs from the recomputed one is
\* answered with a ValidationError whose message names the method, the path
\* and the status code of the exchange; no other failure has that kind
C3_MismatchRejected ==
    (pc = "returned" /\ reply # NoReply) =>
        /\ (reply[1].kind = "document" /\ ~ReplyVerifies) =>
              /\ ret.err # Nil
              /\ ret.err[1].kind = "ValidationError"
              /\ ErrorMessage(ret.err[1]) =
                   <<"Validation Hash Error: method: ", "POST", ", path: ">>
                     \o client.Path \o <<", status code:">> \o StatusText(reply[1].status)
        /\ (reply[1].kind # "document" /\ ret.err # Nil) =>
              ret.err[1].kind # "ValidationError"

C3_Witness ==
    /\ Answered
    /\ ReplyDoc.sha1hash = EmptyString
    /\ reply[1].status = 500
    /\ ret.err # Nil

\* C4: validateResponseHash returns nil for a response whose signature is the
\* chained signature of its seven fields under its secret, whatever exchange
\* it is given, one without request, path and status included
C4_MatchAccepted ==
    (pc = "tested" /\ op = "validateResponseHash") =>
        LET r == reply[1].response
        IN  (r.Sha1Hash =
               ChainedSignature(<< r.Timestamp, r.MerchantID, r.OrderID, r.Result,
                                   r.Message, r.PasRef, r.AuthCode >>, r.sharedSecret))
            => ret.err = Nil

C4_Witness ==
    /\ pc = "tested"
    /\ op = "validateResponseHash"
    /\ reply[1].httpResponse[1].Request = Nil
    /\ reply[1].response.Sha1Hash # EmptyString
    /\ ret.err = Nil

\* C5: when the body decodes and the signature does not verify, transmitRequest
\* returns a nil response, the exchange received and the ValidationError
C5_MismatchResult ==
    (Answered /\ ~ReplyVerifies) =>
        /\ ret.response = Nil
        /\ ret.httpResponse # Nil
        /\ ret.httpResponse[1].StatusCode = reply[1].status
        /\ ret.httpResponse[1].Request[1] =
             [ Method |-> "POST", URL |-> [Path |-> client.Path] ]
        /\ ret.err # Nil
        /\ ret.err[1] = [ kind |-> "ValidationError", Response |-> ret.httpResponse ]

C5_Witness ==
    /\ Answered
    /\ ~ReplyVerifies
    /\ ReplyDoc.sha1hash # EmptyString
    /\ ret.response = Nil
    /\ ret.httpResponse # Nil

\* C6: whatever the operation, a decoded response is accepted exactly when its
\* signature is the chained signature of timestamp, merchant id, order id,
\* result, message, pasref and auth code (empty when unset) under HashSecret
C6_FixedResponseSigning ==
    Answered =>
        /\ (ret.err = Nil) <=> ReplyVerifies
        /\ ret.response # Nil =>
              /\ Len(ret.response[1].elementsToHash) = 7
              /\ ret.response[1].elementsToHash =
                   << ReplyDoc.timestamp, ReplyDoc.merchantid, ReplyDoc.orderid,
                      ReplyDoc.result, ReplyDoc.message, ReplyDoc.pasref,
                      IF ReplyDoc.authcode = Nil THEN EmptyString ELSE ReplyDoc.authcode[1] >>
              /\ ret.response[1].sharedSecret = client.HashSecret

C6_Witness ==
    /\ Answered
    /\ op = "Credit"
    /\ client.RebateHashSecret # client.HashSecret
    /\ ReplyDoc.authcode = Nil
    /\ ret.response # Nil

\* C7: Authorize, Credit and EditCustomer sign timestamp, merchant id, order id,
\* amount, currency, payer reference; Validate signs timestamp, merchant id,
\* order id, payer reference; StoreCard signs the six and then card holder
\* name and card number
C7_SignedElements ==
    Signed =>
        /\ op \in { "Authorize", "Credit", "EditCustomer" } =>
              request.elementsToHash =
                << request.Timestamp, request.MerchantID, request.OrderID,
                   AmountSlot, CurrencySlot, request.PayerRef >>
        /\ op = "Validate" =>
              request.elementsToHash =
                << request.Timestamp, request.MerchantID, request.OrderID, request.PayerRef >>
        /\ op = "StoreCard" =>
              request.elementsToHash =
                << request.Timestamp, request.MerchantID, request.OrderID,
                   AmountSlot, CurrencySlot, request.PayerRef, HolderSlot, NumberSlot >>

C7_Witness ==
    /\ pc = "transmitting"
    /\ op = "StoreCard"
    /\ request.Amount # Nil
    /\ request.Card # Nil
    /\ HolderSlot # NumberSlot

\* C8 as claimed: the sixth element CreateCustomer signs is the request's
\* header payer reference, the value of the payerref element on the wire
C8_SignsHeaderPayerRef ==
    (Signed /\ op = "CreateCustomer") =>
        /\ request.elementsToHash =
             << request.Timestamp, request.MerchantID, request.OrderID,
                AmountSlot, CurrencySlot, request.PayerRef >>
        /\ wire # NoWire => request.elementsToHash[6] = wire[1].Body.payerref

\* C8 amended: CreateCustomer signs timestamp, merchant id, order id, amount,
\* currency and the ref of the nested payer block (empty without one), under
\* the ordinary secret
C8_SignsNestedPayerRef ==
    (Signed /\ op = "CreateCustomer") =>
        /\ request.elementsToHash =
             << request.Timestamp, request.MerchantID, request.OrderID,
                AmountSlot, CurrencySlot, NestedPayerRefSlot >>
        /\ request.sharedSecret = client.HashSecret

C8_Witness ==
    /\ pc = "transmitting"
    /\ op = "CreateCustomer"
    /\ request.Payer # Nil
    /\ request.Payer[1].Ref # request.PayerRef
    /\ request.elementsToHash[6] = request.Payer[1].Ref

\* C9: EditCard signs timestamp, merchant id, payer reference, card ref, card
\* expiry, card number and DeleteCard signs timestamp, merchant id, payer
\* reference, card ref; the payer reference is the request's own
C9_CardElements ==
    Signed =>
        /\ op = "EditCard" =>
              request.elementsToHash =
                << request.Timestamp, request.MerchantID, request.PayerRef,
                   CardRefSlot, ExpirySlot, NumberSlot >>
        /\ op = "DeleteCard" =>
              request.elementsToHash =
                << request.Timestamp, request.MerchantID, request.PayerRef, CardRefSlot >>
        /\ op \in { "EditCard", "DeleteCard" } =>
              \A i \in 1..Len(request.elementsToHash) :
                  request.elementsToHash[i] # request.OrderID

C9_Witness ==
    /\ pc = "transmitting"
    /\ op = "EditCard"
    /\ request.Card # Nil
    /\ request.Card[1].PayerRef # EmptyString
    /\ request.Card[1].PayerRef # request.PayerRef

\* C10: the request signature is computed with RebateHashSecret for Credit and
\* with HashSecret for the seven other operations
C10_SigningSecret ==
    Signed =>
        LET secret == IF op = "Credit" THEN client.RebateHashSecret ELSE client.HashSecret
        IN  /\ request.sharedSecret = secret
            /\ request.Sha1Hash = ChainedSignature(request.elementsToHash, secret)
            /\ wire # NoWire => wire[1].Body.sha1hash = request.Sha1Hash

C10_Witness ==
    /\ pc = "transmitting"
    /\ op = "Credit"
    /\ client.RebateHashSecret # client.HashSecret
    /\ request.sharedSecret = client.RebateHashSecret

SignsAmount == { "Authorize", "Credit", "CreateCustomer", "EditCustomer", "StoreCard" }
SignsCard == { "StoreCard", "EditCard", "DeleteCard" }

\* the list an operation signs when every absent group stands for empty fields
ListWithEmptySlots ==
    CASE op \in { "Authorize", "Credit", "EditCustomer" } ->
           << request.Timestamp, request.MerchantID, request.OrderID,
              AmountSlot, CurrencySlot, request.PayerRef >>
      [] op = "Validate" ->
           << request.Timestamp, request.MerchantID, request.OrderID, request.PayerRef >>
      [] op = "CreateCustomer" ->
           << request.Timestamp, request.MerchantID, request.OrderID,
              AmountSlot, CurrencySlot, NestedPayerRefSlot >>
      [] op = "StoreCard" ->
           << request.Timestamp, request.MerchantID, request.OrderID,
              AmountSlot, CurrencySlot, request.PayerRef, HolderSlot, NumberSlot >>
      [] op = "EditCard" ->
           << request.Timestamp, request.MerchantID, request.PayerRef,
              CardRefSlot, ExpirySlot, NumberSlot >>
      [] op = "DeleteCard" ->
           << request.Timestamp, request.MerchantID, request.PayerRef, CardRefSlot >>

\* C11: an operation called on a request that lacks a nested group it signs a
\* field of (Amount, Card, Payer) does not fail: it ends signed, the absent
\* field's slot is the empty string, and the signature is the one of the same
\* request with the group present and the field empty
C11_AbsentGroupSigned ==
    (op \in OperationNames
       /\ \/ (op \in SignsAmount /\ request.Amount = Nil)
          \/ (op \in SignsCard /\ request.Card = Nil)
          \/ (op = "CreateCustomer" /\ request.Payer = Nil)) =>
        /\ Signed
        /\ request.elementsToHash = ListWithEmptySlots
        /\ (op \in SignsAmount /\ request.Amount = Nil) =>
              /\ request.elementsToHash[4] = EmptyString
              /\ request.elementsToHash[5] = EmptyString
        /\ request.Sha1Hash = ChainedSignature(ListWithEmptySlots, request.sharedSecret)

DecimalDigits == << "0", "1", "2", "3", "4", "5", "6", "7", "8", "9" >>
TwoDigits(n) == << DecimalDigits[(n \div 10) + 1], DecimalDigits[(n % 10) + 1] >>

\* YYYYMMDDHHMMSS of the time source's current time
FourteenDigits ==
    TwoDigits(now.year \div 100) \o TwoDigits(now.year % 100) \o TwoDigits(now.month)
      \o TwoDigits(now.day) \o TwoDigits(now.hour) \o TwoDigits(now.minute)
      \o TwoDigits(now.second)

\* C12: whatever timestamp and merchant id the caller had put in the request,
\* a called operation has replaced them with the 14 digits YYYYMMDDHHMMSS of
\* the time source's current time and with the client's merchant id, and these
\* are the first two elements signed and the values sent on the wire
C12_StampedBeforeSigning ==
    op \in OperationNames =>
        /\ Len(request.Timestamp) = 14
        /\ request.Timestamp = FourteenDigits
        /\ request.MerchantID = client.MerchantID
        /\ Signed =>
              /\ request.elementsToHash[1] = request.Timestamp
              /\ request.elementsToHash[2] = request.MerchantID
        /\ wire # NoWire =>
              /\ wire[1].Body.timestamp = request.elementsToHash[1]
              /\ wire[1].Body.merchantid = request.elementsToHash[2]

C12_Witness ==
    /\ pc = "transmitting"
    /\ op = "Validate"
    /\ now.second = StartTime.second + 1
    /\ request.elementsToHash[1] =
         << "2", "0", "1", "8", "0", "6", "1", "4", "0", "9", "5", "0", "0", "1" >>
    /\ wire[1].Body.merchantid = DefaultMerchantID

\* the type code the specification gives each operation
TypeCode ==
    [ Authorize |-> << "receipt-in" >>, Validate |-> << "receipt-in-otb" >>,
      Credit |-> << "payment-out" >>, CreateCustomer |-> << "payer-new" >>,
      EditCustomer |-> << "payer-edit" >>, StoreCard |-> << "card-new" >>,
      EditCard |-> << "card-update-card" >>, DeleteCard |-> << "card-cancel-card" >> ]

\* C13: a called operation has set the request's type code to its own literal,
\* whatever the caller had put there, that literal is the type sent on the
\* wire, and the eight literals are pairwise distinct
C13_TypeCodes ==
    /\ op \in OperationNames =>
          /\ request.Type = TypeCode[op]
          /\ wire # NoWire => wire[1].Body.type = TypeCode[op]
    /\ \A a, b \in OperationNames : a # b => TypeCode[a] # TypeCode[b]
    /\ { AuthorizeType, ValidateType, CreditType, CreateCustomerType, EditCustomerType,
         StoreCardType, EditCardType, DeleteCardType } = { TypeCode[a] : a \in OperationNames }

C13_Witness ==
    /\ pc = "transmitting"
    /\ op = "Credit"
    /\ request.Type = << "payment-out" >>
    /\ wire[1].Body.type = << "payment-out" >>

\* C14: the request's signature is the chained signature of fields other than
\* sha1hash, so it is the same whatever sha1hash held before the call, and it
\* is the value sent; a response is verified against the chained signature of
\* seven fields none of which is its received sha1hash
C14_SignatureNotItsOwnInput ==
    /\ Signed =>
          /\ request.elementsToHash = ListWithEmptySlots
          /\ request.Sha1Hash = ChainedSignature(ListWithEmptySlots, request.sharedSecret)
          /\ \A i \in 1..Len(request.elementsToHash) :
                request.elementsToHash[i] # request.Sha1Hash
          /\ wire # NoWire => wire[1].Body.sha1hash = request.Sha1Hash
    /\ (pc = "returned" /\ reply # NoReply /\ reply[1].kind = "document") =>
          LET d == reply[1].doc[1]
              seven == << d.timestamp, d.merchantid, d.orderid, d.result, d.message,
                          d.pasref,
                          IF d.authcode = Nil THEN EmptyString ELSE d.authcode[1] >>
          IN  /\ d.sha1hash # EmptyString => \A i \in 1..7 : seven[i] # d.sha1hash
              /\ (ret.err = Nil) <=> (d.sha1hash = ChainedSignature(seven, client.HashSecret))
              /\ ret.response # Nil => ret.response[1].elementsToHash = seven

C14_Witness ==
    /\ pc = "returned"
    /\ op = "Validate"
    /\ ret.response # Nil
    /\ ret.response[1].Sha1Hash # EmptyString
    /\ request.Sha1Hash = wire[1].Body.sha1hash
    /\ request.Sha1Hash # ret.response[1].Sha1Hash

Occurrences(seq, x) == Cardinality({ i \in 1..Len(seq) : seq[i] = x })
Position(seq, x) == CHOOSE i \in 1..Len(seq) : seq[i] = x

Exchanged == reply # NoReply
FailedReply == Exchanged /\ (reply[1].kind # "document" \/ ~ReplyVerifies)

\* C15: a call hands at most one request to the HTTP client, a POST to the
\* service's path that carries the signature already computed and assigned to
\* the request; once the exchange has failed in transport, in decoding or in
\* verification the call has returned with that error and sends nothing more
C15_OneExchange ==
    /\ Occurrences(trace, "HTTPClient.Do") <= 1
    /\ Exchanged <=> Occurrences(trace, "HTTPClient.Do") = 1
    /\ wire # NoWire =>
          /\ Len(wire) = 1
          /\ wire[1].Method = "POST"
          /\ wire[1].URL.Path = client.Path
          /\ wire[1].Body.sha1hash = request.Sha1Hash
          /\ request.Sha1Hash =
               ChainedSignature(request.elementsToHash, request.sharedSecret)
    /\ Exchanged =>
          /\ wire # NoWire
          /\ Position(trace, "buildSignature") < Position(trace, "HTTPClient.Do")
          /\ pc = "returned"
    /\ FailedReply =>
          /\ ret.err # Nil
          /\ ret.response = Nil
          /\ reply[1].kind = "document" => ret.err[1].kind = "ValidationError"
          /\ reply[1].kind # "document" => ret.err = reply[1].err

C15_Witness ==
    /\ pc = "returned"
    /\ Exchanged
    /\ reply[1].kind = "transport"
    /\ trace = << "buildSignature", "NewRequest", "HTTPClient.Do" >>
    /\ ret.err # Nil

\* C16: when the HTTP client fails, transmitRequest returns a nil response and
\* the very error the HTTP client returned; nothing was decoded and the
\* validator was not called
C16_TransportFailure ==
    (Exchanged /\ reply[1].kind = "transport") =>
        /\ pc = "returned"
        /\ ret.response = Nil
        /\ ret.err = reply[1].err
        /\ Occurrences(trace, "Decode") = 0
        /\ Occurrences(trace, "validateResponseHash") = 0

C16_Witness ==
    /\ pc = "returned"
    /\ Exchanged
    /\ reply[1].kind = "transport"
    /\ ret.err # Nil
    /\ ret.err[1].kind = "context deadline exceeded"
    /\ ret.response = Nil

\* C17: when the response body does not decode, transmitRequest returns the
\* decoder's error and a nil response, for every status code, and the
\* validator was not called
C17_DecodeFailure ==
    (Exchanged /\ reply[1].kind = "undecodable") =>
        /\ pc = "returned"
        /\ ret.response = Nil
        /\ ret.err # Nil
        /\ ret.err[1] \in { [ kind |-> "EOF", Response |-> Nil ],
                            [ kind |-> "XML syntax error", Response |-> Nil ] }
        /\ ret.err = reply[1].err
        /\ Occurrences(trace, "Decode") = 1
        /\ Occurrences(trace, "validateResponseHash") = 0

C17_Witness ==
    /\ pc = "returned"
    /\ Exchanged
    /\ reply[1].kind = "undecodable"
    /\ reply[1].status = 200
    /\ ret.err # Nil
    /\ ret.err[1].kind = "XML syntax error"
    /\ ret.response = Nil

ShownTimestamps ==
    { << "2", "0", "1", "8", "0", "6", "1", "4", "0", "9", "5", "0" >> \o TwoDigits(sec) :
      sec \in StartTime.second..now.second }

\* C20: with several callers running operations on one client at once, each on
\* its own request, every caller that has signed holds the request a call run
\* alone on its own input with the timestamp it read would hold: the same
\* element list, the same secret, the same signature, and that is what it
\* sends; a request no call has started on is as its caller made it
C20_CallersIndependent ==
    \A c \in Callers :
        /\ pc[c] = "idle" => request[c] \in CallerRequests(c)
        /\ pc[c] = "transmitting" =>
              \E input \in CallerRequests(c) :
                  LET stamped == [ input EXCEPT !.Timestamp = request[c].Timestamp,
                                                !.MerchantID = client.MerchantID,
                                                !.Type = TypeCode[op[c]] ]
                      list == OperationElements(op[c], stamped)
                      secret == IF op[c] = "Credit" THEN client.RebateHashSecret
                                                    ELSE client.HashSecret
                  IN  /\ ~(op[c] = "Authorize" /\ input.Amount = Nil)
                      /\ request[c].Timestamp \in ShownTimestamps
                      /\ request[c] = [ stamped EXCEPT
                                          !.elementsToHash = list,
                                          !.sharedSecret = secret,
                                          !.Sha1Hash = ChainedSignature(list, secret) ]
                      /\ wire[c][1].Body.sha1hash = request[c].Sha1Hash
                      /\ wire[c][1].Body.orderid = << "o", DecimalDigits[c + 1] >>

C20_Witness ==
    /\ pc[1] = "transmitting"
    /\ pc[2] = "transmitting"
    /\ op[1] = "Credit"
    /\ op[2] = "EditCard"
    /\ request[1].Timestamp # request[2].Timestamp
    /\ request[1].sharedSecret # request[2].sharedSecret
    /\ request[1].Sha1Hash # request[2].Sha1Hash

\* the timestamps of the wall clock since the callers started
WallClockTimestamps ==
    { << "2", "0", "2", "0", "0", "2", "0", "4", "1", "5", "5", "9" >> \o TwoDigits(sec) :
      sec \in 42..(42 + MaxClock) }

\* C21: when a fixed clock is substituted for the use of one caller (the first),
\* the timestamp every other caller stamps is still the wall clock's, also for
\* a call that had not stamped yet when the substitution happened
C21_ClockPerCall ==
    \A c \in Callers \ { 1 } :
        pc[c] # "idle" => request[c].Timestamp \in WallClockTimestamps

\* C22: once an operation has returned, the caller's request holds neither an
\* element list nor a secret, and a returned response holds neither
C22_ContextDiscarded ==
    pc = "returned" =>
        /\ request.elementsToHash = << >>
        /\ request.sharedSecret = EmptyString
        /\ ret.response # Nil =>
              /\ ret.response[1].elementsToHash = << >>
              /\ ret.response[1].sharedSecret = EmptyString

\* the text values the document on the wire carries
WireTexts ==
    LET b == wire[1].Body
    IN  { b.type, b.timestamp, b.merchantid, b.orderid, b.payerref, b.paymentmethod,
          b.sha1hash }
          \cup (IF b.amount = Nil THEN { } ELSE { b.amount[1].Amount, b.amount[1].Currency })
          \cup (IF b.payer = Nil THEN { } ELSE { b.payer[1].Ref })
          \cup (IF b.card = Nil THEN { }
                ELSE { b.card[1].Ref, b.card[1].PayerRef, b.card[1].Number,
                       b.card[1].ExpDate, b.card[1].CardHolderName })

\* C23: the document sent to the gateway has the domain fields and the
\* signature and nothing else: no element list, no secret field, and no value
\* equal to the ordinary or the rebate secret; the secret enters the signature
\* it carries in the second hash pass only
C23_SecretNotOnWire ==
    wire # NoWire =>
        /\ DOMAIN wire[1].Body =
             { "type", "timestamp", "merchantid", "orderid", "payerref", "paymentmethod",
               "sha1hash", "amount", "payer", "card" }
        /\ client.HashSecret \notin WireTexts
        /\ client.RebateHashSecret \notin WireTexts
        /\ wire[1].Body.sha1hash =
             Sha1Hex(Sha1Hex(DotJoined(request.elementsToHash))
                       \o << "." >> \o request.sharedSecret)
        /\ \A i \in 1..Len(request.elementsToHash) :
              request.elementsToHash[i] # request.sharedSecret

C23_Witness ==
    /\ pc = "transmitting"
    /\ op = "Credit"
    /\ request.sharedSecret = client.RebateHashSecret
    /\ client.RebateHashSecret # client.HashSecret
    /\ Len(request.elementsToHash) = 6
    /\ wire[1].Body.sha1hash # EmptyString

\* the value the last option that assigns the field gave it, else the default
LastSet(opts, field, default) ==
    LET assigning == { i \in DOMAIN opts : opts[i].field = field }
    IN  IF assigning = { } THEN default
        ELSE opts[CHOOSE i \in assigning : \A j \in assigning : j <= i].value

FinalBaseURL == LastSet(options, "BaseURL", DefaultBaseURL)

EndsInSlash(path) == path # << >> /\ path[Len(path)] = "/"

\* C24: when the path of the base URL, after every option is applied, ends in
\* "/", NewClient returns an error and no client.
C24_TrailingSlashRefused ==
    (pc # "new" /\ FinalBaseURL # Nil /\ EndsInSlash(FinalBaseURL[1].Path))
        => /\ pc = "failed"
           /\ client = Nil
           /\ ret.err # Nil

C24_Witness ==
    /\ pc = "failed"
    /\ Len(options) = 2
    /\ options[1].field = "BaseURL"
    /\ options[1].value # Nil
    /\ ~EndsInSlash(options[1].value[1].Path)
    /\ options[2].field = "BaseURL"
    /\ options[2].value # Nil
    /\ options[2].value[1].Path = << "/api", "/" >>
    /\ client = Nil
    /\ ret.err # Nil

\* a base URL no call can use: missing, without scheme or host, or with a
\* path that ends in "/"
InvalidBaseURL(url) ==
    \/ url = Nil
    \/ url[1].Scheme \notin { "http", "https" }
    \/ url[1].Host = ""
    \/ EndsInSlash(url[1].Path)

\* C25: every malformed, invalid or missing base URL makes NewClient return an
\* error and no client, so that no call on a client that was returned fails
\* because of its base URL.
C25_ConfigurationErrorAtConstruction ==
    /\ (pc # "new" /\ InvalidBaseURL(FinalBaseURL))
           => /\ pc = "failed"
              /\ client = Nil
              /\ ret.err # Nil
    /\ pc # "call failed"

ClientFields ==
    { "BaseURL", "HashSecret", "RebateHashSecret", "MerchantID", "Path", "HTTPClient" }

\* the sandbox default of a field; the HTTP client is the one this call allocated
SandboxDefault(field, allocated) ==
    CASE field = "BaseURL" -> DefaultBaseURL
      [] field = "HashSecret" -> DefaultHashSecret
      [] field = "RebateHashSecret" -> DefaultRebateHash
      [] field = "MerchantID" -> DefaultMerchantID
      [] field = "Path" -> DefaultPath
      [] field = "HTTPClient" -> allocated

Built == pc \in { "built", "rebuilt", "called", "call failed" }

\* C26: NewClient sets the sandbox defaults, applies the options in the order
\* given and validates last: every field of the client returned is what the last
\* option that assigns it gave, else the default; the call fails exactly on the
\* final base URL; two constructions that leave the HTTP client alone get two
\* different HTTP clients.
C26_DefaultsOptionsValidation ==
    /\ Built =>
          /\ client # Nil
          /\ \A f \in ClientFields :
                client[1][f] = LastSet(options, f, SandboxDefault(f, client[1].HTTPClient))
          /\ LastSet(options, "HTTPClient", Nil) = Nil
                => client[1].HTTPClient # HttpClient(0)
    /\ (pc # "new" /\ FinalBaseURL # Nil)
          => (pc = "failed" <=> EndsInSlash(FinalBaseURL[1].Path))
    /\ pc = "rebuilt" =>
          /\ reply # Nil
          /\ \A f \in ClientFields \ { "HTTPClient" } : reply[1][f] = client[1][f]
          /\ LastSet(options, "HTTPClient", Nil) = Nil
                => reply[1].HTTPClient # client[1].HTTPClient
          /\ LastSet(options, "HTTPClient", Nil) # Nil
                => reply[1].HTTPClient = client[1].HTTPClient

C26_Witness ==
    /\ pc = "rebuilt"
    /\ Len(options) = 2
    /\ options[1].field = "HashSecret"
    /\ options[2].field = "HashSecret"
    /\ options[1].value # options[2].value
    /\ client[1].HashSecret = options[2].value
    /\ client[1].MerchantID = DefaultMerchantID
    /\ client[1].BaseURL = DefaultBaseURL
    /\ reply[1].HTTPClient # client[1].HTTPClient

\* the request fields an operation has no business with
DomainFields == { "OrderID", "PayerRef", "PaymentMethod", "Amount", "Payer", "Card" }

\* C27: a call assigns only Type, Timestamp, MerchantID, Sha1Hash and the
\* signing context of the request: no step of a call, on success or on any
\* error path, changes another request field or any field of the client.
C27_WritesOnlyHeaderAndSignature ==
    [][ /\ client' = client
        /\ \A f \in DomainFields : request'[f] = request[f] ]_vars

C27_Witness ==
    /\ pc = "returned"
    /\ op = "StoreCard"
    /\ ret.err # Nil
    /\ reply # NoReply
    /\ request.Type = StoreCardType
    /\ request.Sha1Hash # EmptyString
    /\ request.Card # Nil
    /\ request.Payer # Nil
    /\ request.Amount # Nil
    /\ request.PaymentMethod # EmptyString

\* the element lists an operation with as many slots could have signed instead
OtherLists(elems) ==
    { l \in ElementLists(MaxElems) : Len(l) = Len(elems) /\ l # elems }

HasDelimiter(str) == \E i \in DOMAIN str : str[i] = "."

DelimiterFree(elems) == \A i \in DOMAIN elems : ~HasDelimiter(elems[i])

SignedInTest == pc = "tested" /\ op = "buildSignature"

\* C28: two element lists with the same slots that differ in a slot never give
\* the same first-pass string nor the same signature under one secret, whatever
\* the field values contain.
C28_BoundariesBound ==
    SignedInTest =>
        \A other \in OtherLists(request.elementsToHash) :
            /\ Join(other, <<".">>) # Join(request.elementsToHash, <<".">>)
            /\ buildSignature(other, request.sharedSecret) # request.Sha1Hash

\* C28 amended: the same for lists none of whose values contains ".".
C28_BoundariesBoundWithoutDelimiter ==
    (SignedInTest /\ DelimiterFree(request.elementsToHash)) =>
        \A other \in OtherLists(request.elementsToHash) :
            DelimiterFree(other) =>
                /\ Join(other, <<".">>) # Join(request.elementsToHash, <<".">>)
                /\ buildSignature(other, request.sharedSecret) # request.Sha1Hash

C28_Witness ==
    /\ SignedInTest
    /\ request.elementsToHash = << <<"a">>, EmptyString >>
    /\ request.sharedSecret # EmptyString
    /\ request.Sha1Hash = ChainedSignature(request.elementsToHash, request.sharedSecret)
    /\ << EmptyString, <<"a">> >> \in OtherLists(request.elementsToHash)

\* the operations that sign timestamp, merchant id, order id, amount, currency
\* and a payer reference
HeaderOperations == { "Authorize", "EditCustomer", "CreateCustomer", "Credit" }

\* the signature the named operation gives the request as it is now stamped
SignatureBy(name) ==
    CASE name = "Authorize" ->
            buildSignature(AuthorizeElements(request), AuthorizeSecret(client))
      [] name = "EditCustomer" ->
            buildSignature(EditCustomerElements(request), EditCustomerSecret(client))
      [] name = "CreateCustomer" ->
            buildSignature(CreateCustomerElements(request), CreateCustomerSecret(client))
      [] name = "Credit" ->
            buildSignature(CreditElements(request), CreditSecret(client))

\* C29: the type code is not signed. On one request and one timestamp the
\* signature of the operation called is also the one Authorize and EditCustomer
\* give, CreateCustomer gives it when the nested payer ref equals the payer
\* reference, and Credit gives it exactly when the two secrets are equal.
C29_TypeNotBound ==
    (Signed /\ op \in HeaderOperations /\ request.Amount # Nil) =>
        /\ request.Type = TypeCode[op]
        /\ request.Sha1Hash = SignatureBy(op)
        /\ SignatureBy("Authorize") = SignatureBy("EditCustomer")
        /\ getPayerRef(request) = request.PayerRef
              => SignatureBy("CreateCustomer") = SignatureBy("Authorize")
        /\ SignatureBy("Credit") = SignatureBy("Authorize")
              <=> client.RebateHashSecret = client.HashSecret

C29_Witness ==
    /\ Signed
    /\ op = "EditCustomer"
    /\ request.Amount # Nil
    /\ request.Amount[1].Amount # EmptyString
    /\ getPayerRef(request) = request.PayerRef
    /\ client.RebateHashSecret # client.HashSecret
    /\ request.Type = << "payer-edit" >>
    /\ request.Sha1Hash =
          ChainedSignature(<< request.Timestamp, request.MerchantID, request.OrderID,
                              request.Amount[1].Amount, request.Amount[1].Currency,
                              request.PayerRef >>, client.HashSecret)

HashedInTest == pc = "tested" /\ op = "hashAndEncode"

\* C30: hashAndEncode writes the whole string to the hasher once, then reads
\* the digest once, and returns the digest in hex; when the write fails it
\* returns the empty string and the write's error and never reads the digest.
C30_WriteThenSum ==
    HashedInTest =>
        LET m == reply[1].marshaller
        IN  /\ m.p = << reply[1].message >>
            /\ IF m.writeErr = Nil
               THEN /\ m.calls = << "write", "sum" >>
                    /\ ret.err = Nil
                    /\ Len(ret.hashAndEncodedString) = 2 * Len(m.digest)
                    /\ m.digest = << "H", "e", "l", "l", "o" >>
                          => ret.hashAndEncodedString =
                                << "4", "8", "6", "5", "6", "c", "6", "c", "6", "f" >>
               ELSE /\ m.calls = << "write" >>
                    /\ ret.err = m.writeErr
                    /\ ret.hashAndEncodedString = EmptyString

C30_Witness ==
    /\ HashedInTest
    /\ reply[1].message = << "hello world" >>
    /\ reply[1].marshaller.writeErr = Nil
    /\ reply[1].marshaller.digest = << "H", "e", "l", "l", "o" >>
    /\ reply[1].marshaller.calls = << "write", "sum" >>
    /\ reply[1].marshaller.p = << << "hello world" >> >>
    /\ ret.hashAndEncodedString = << "4", "8", "6", "5", "6", "c", "6", "c", "6", "f" >>
    /\ ret.err = Nil

====
